---- MODULE Spec2Model ----
(***************************************************************************)
(* Model of the retry decorator and the scraping run of scraper.py and of  *)
(* the query-vector construction and query run of main.py.                 *)
(*                                                                         *)
(* Delays are kept in tenths of a second (the source computes              *)
(* initial_backoff * 2^attempt + 0.1 * attempt seconds).  Embedding        *)
(* elements are small integers; a normalised vector is kept as the pair    *)
(* (num, den2) standing for num[i] / sqrt(den2).                           *)
(***************************************************************************)
EXTENDS Integers, Sequences, FiniteSets, TLC

\* ---------------------------------------------------------------- bounds
MaxAttempts == 4
MaxBackoff == 2
MaxTextDim == 3
MaxCollDim == 7
MaxVal == 1
MaxProducts == 2
MaxLines == 3

\* ------------------------------------------------- scraper.py constants
MAX_RETRIES == 3
INITIAL_BACKOFF == 2

VARIABLES
    \* retry_request.wrapper (one call of a decorated function)
    max_retries,        \* decorator argument
    initial_backoff,    \* decorator argument, seconds
    w_func,             \* the decorated function being called
    w_pc,               \* position of the wrapper
    attempt,            \* loop variable of `for attempt in range(max_retries)`
    calls,              \* number of invocations of func in this call
    e,                  \* the exception raised by the latest invocation
    sleeps,             \* delays passed to time.sleep, in tenths of a second
    log,                \* retry lines printed
    w_result,           \* what the wrapper delivers to its caller
    \* main.py: one query run
    collection_dim,     \* determine_embedding_dim(collection)
    q_pc,               \* position of the query run
    text_vec,           \* what model.embed(query_text) returned
    query_vector,       \* what build_query_vector returned
    store_queries,      \* the vectors passed to collection.query
    q_error,            \* the message of the error run_query raised
    \* scraper.scrape_laam_pk
    s_pc,               \* position of the scraping run
    num_products,       \* argument of scrape_laam_pk
    products_to_process,
    idx,                \* products of the batch already handled by the for loop
    final_products_data,
    api_fetches,        \* handles fetch_product_details_from_api was called for
    image_downloads,    \* handles download_image_content was called for
    image_files,        \* handles whose image file was written
    metadata_file,      \* products_metadata.json
    fatal,              \* the error of the "FATAL: Could not fetch sitemap" line
    api_skipped,        \* handles of the "Skipping ... persistent API retrieval failure" lines
    image_skipped,      \* handles of the "Skipping image for ..." lines
    \* main.main, run as a script
    m_pc,               \* position of the CLI run
    args,               \* the command line, as far as --query goes
    clip_ok,            \* whether llm.get_embedding_model("clip") succeeds
    collection,         \* what the vector store holds under COLLECTION_NAME
    stdin,              \* the lines standard input will deliver
    lines_read,         \* how many of them input() has returned
    prompts,            \* "Query> " prompts shown
    interactive,        \* whether interactive_loop was entered
    queries_run,        \* the query_text of every run_query call, in order
    embed_requests,     \* calls of model.embed
    exit_code,          \* the process exit code, -1 while running
    stderr              \* the message written to the error stream

wvars == <<max_retries, initial_backoff, w_func, w_pc, attempt, calls, e,
           sleeps, log, w_result>>

qvars == <<collection_dim, q_pc, text_vec, query_vector, store_queries, q_error>>

svars == <<s_pc, num_products, products_to_process, idx, final_products_data,
           api_fetches, image_downloads, image_files, metadata_file, fatal,
           api_skipped, image_skipped>>

mvars == <<m_pc, args, clip_ok, collection, stdin, lines_read, prompts, interactive,
           queries_run, embed_requests, exit_code, stderr>>

vars == <<wvars, qvars, svars, mvars>>

\* ------------------------------------------------------ values and errors
NoneValue == [tag |-> "none", kind |-> "None", status |-> 0, at |-> 0]

Value(kind, a) == [tag |-> "ok", kind |-> kind, status |-> 200, at |-> a]

Err(kind, status, a) == [tag |-> "err", kind |-> kind, status |-> status, at |-> a]

\* HTTP error statuses for which raise_for_status raises HTTPError
ErrorStatuses == {404, 429, 500}

\* requests.get: transport failures
TransportErrors(a) == {Err("ConnectionError", 0, a), Err("Timeout", 0, a)}

\* response.raise_for_status(): HTTPError for 4xx and 5xx
HTTPErrors(a) == {Err("HTTPError", s, a) : s \in ErrorStatuses}

\* response.json(): requests >= 2.27 raises requests.exceptions.JSONDecodeError
\* (a RequestException); earlier versions raise a plain ValueError.
DecodeErrors(a) == {Err("JSONDecodeError", 200, a), Err("ValueError", 200, a)}

\* `except requests.exceptions.RequestException`
IsRequestException(err) ==
    err.kind \in {"ConnectionError", "Timeout", "HTTPError", "JSONDecodeError"}

fetch_sitemap_content(a) ==
    TransportErrors(a) \cup HTTPErrors(a) \cup {Value("text", a)}

fetch_product_details_from_api(a) ==
    TransportErrors(a) \cup HTTPErrors(a) \cup DecodeErrors(a) \cup {Value("json", a)}

download_image_content(a) ==
    TransportErrors(a) \cup HTTPErrors(a) \cup {Value("content", a)}

WrappedFuncs ==
    {"fetch_sitemap_content", "fetch_product_details_from_api", "download_image_content"}

\* the outcomes of one invocation func(*args, **kwargs) made at loop index a
Invoke(f, a) ==
    CASE f = "fetch_sitemap_content" -> fetch_sitemap_content(a)
      [] f = "fetch_product_details_from_api" -> fetch_product_details_from_api(a)
      [] f = "download_image_content" -> download_image_content(a)

\* ---------------------------------------------------------- retry_request
\* off by one: the final attempt is treated as one more retry
ShouldRetry_always(a, n) == a < n

\* `if attempt < max_retries - 1`
ShouldRetry(a, n) == a < n - 1

\* the linear term is dropped
sleep_time_no_linear(ib, a) == 10 * ib * (2 ^ a)

\* `initial_backoff * (2 ** attempt) + (0.1 * attempt)`, in tenths of a second
sleep_time(ib, a) == 10 * ib * (2 ^ a) + a

\* the retry number is printed zero-based
RetryLine_zero_based(a, n, ib) == [retry |-> a, of |-> n, delay |-> sleep_time(ib, a)]

\* the retry line printed before sleeping (the text of the error is left out)
RetryLine(a, n, ib) == [retry |-> a + 1, of |-> n, delay |-> sleep_time(ib, a)]

\* a new error is raised in place of the one being handled
Reraise_wrapped(err) == Err("RuntimeError", 0, err.at)

\* the bare `raise` of the final attempt: the exception being handled, as is
Reraise(err) == err

\* a fresh call of the decorated function f: `for attempt in range(max_retries)`
\* starts at 0; with max_retries = 0 the loop body never runs and the wrapper
\* falls off its end, returning None.
WrapperCall(f) ==
    /\ w_func' = f
    /\ attempt' = 0
    /\ calls' = 0
    /\ e' = NoneValue
    /\ sleeps' = <<>>
    /\ log' = <<>>
    /\ w_result' = NoneValue
    /\ w_pc' = IF max_retries > 0 THEN "attempting" ELSE "returned"
    /\ UNCHANGED <<max_retries, initial_backoff>>

\* one pass of the loop body: `return func(...)` or the except clause
Attempt ==
    /\ w_pc = "attempting"
    /\ \E o \in Invoke(w_func, attempt) :
         /\ calls' = calls + 1
         /\ IF o.tag = "ok"
              THEN /\ w_pc' = "succeeded"
                   /\ w_result' = o
                   /\ UNCHANGED <<e, log>>
              ELSE /\ e' = o
                   /\ IF IsRequestException(o) /\ ShouldRetry(attempt, max_retries)
                        THEN /\ log' = Append(log, RetryLine(attempt, max_retries, initial_backoff))
                             /\ w_pc' = "retrying"
                             /\ UNCHANGED w_result
                        ELSE /\ w_pc' = "raised"
                             /\ w_result' = IF IsRequestException(o) THEN Reraise(o) ELSE o
                             /\ UNCHANGED log
    /\ UNCHANGED <<max_retries, initial_backoff, w_func, attempt, sleeps>>
    /\ UNCHANGED <<qvars, svars, mvars>>

\* `time.sleep(sleep_time)`, then the next iteration of the for loop (or its end)
Sleep ==
    /\ w_pc = "retrying"
    /\ sleeps' = Append(sleeps, sleep_time(initial_backoff, attempt))
    /\ attempt' = attempt + 1
    /\ IF attempt + 1 < max_retries
         THEN w_pc' = "attempting" /\ UNCHANGED w_result
         ELSE w_pc' = "returned" /\ w_result' = NoneValue
    /\ UNCHANGED <<max_retries, initial_backoff, w_func, calls, e, log>>
    /\ UNCHANGED <<qvars, svars, mvars>>

WrapperIdle ==
    /\ w_func = "none"
    /\ w_pc = "idle"
    /\ attempt = 0
    /\ calls = 0
    /\ e = NoneValue
    /\ sleeps = <<>>
    /\ log = <<>>
    /\ w_result = NoneValue

\* ------------------------------------------------ main.build_query_vector
Min(a, b) == IF a < b THEN a ELSE b

Max(a, b) == IF a > b THEN a ELSE b

\* v[:n]: the first n elements, all of v when n >= len(v); a negative n counts
\* from the end
Take(v, n) ==
    IF n >= 0 THEN SubSeq(v, 1, Min(n, Len(v))) ELSE SubSeq(v, 1, Max(0, Len(v) + n))

\* floor in place of ceil
CeilDiv_floor(a, b) == a \div b

\* int(np.ceil(a / b)) for a >= 0, b >= 1
CeilDiv(a, b) == (a + b - 1) \div b

\* np.repeat in place of np.tile: each element repeated in place
RECURSIVE Tile_repeat(_, _)
Tile_repeat(v, repeats) ==
    IF v = <<>> THEN <<>>
    ELSE [i \in 1..Max(repeats, 0) |-> Head(v)] \o Tile_repeat(Tail(v), repeats)

\* np.tile(v, repeats): v followed by itself, repeats times in all
RECURSIVE Tile(_, _)
Tile(v, repeats) == IF repeats <= 0 THEN <<>> ELSE v \o Tile(v, repeats - 1)

\* lines 51-55: truncate, or tile and truncate
Fuse(tv, cdim) ==
    IF cdim <= Len(tv)
      THEN Take(tv, cdim)
      ELSE Take(Tile(tv, CeilDiv(cdim, Len(tv))), cdim)

\* np.linalg.norm(v) squared
RECURSIVE SumSq(_)
SumSq(v) == IF v = <<>> THEN 0 ELSE Head(v) * Head(v) + SumSq(Tail(v))

\* the division by the norm is left out
Normalize_skip(fused) == [num |-> fused, den2 |-> 1]

\* `if norm: fused = fused / norm`: the vector num[i] / sqrt(den2)
Normalize(fused) ==
    IF SumSq(fused) # 0
      THEN [num |-> fused, den2 |-> SumSq(fused)]
      ELSE [num |-> fused, den2 |-> 1]

NoVector == [num |-> <<>>, den2 |-> 0]

\* the empty-embedding check is left out
build_query_vector_nocheck(tv, cdim) ==
    [tag |-> "ok", msg |-> "none",
     vec |-> Normalize(IF Len(tv) = 0 THEN <<>> ELSE Fuse(tv, cdim))]

build_query_vector(tv, cdim) ==
    IF Len(tv) = 0
      THEN [tag |-> "RuntimeError", msg |-> "Embedding model returned an empty vector.",
            vec |-> NoVector]
      ELSE [tag |-> "ok", msg |-> "none", vec |-> Normalize(Fuse(tv, cdim))]

\* what model.embed may return
Vals == (0 - MaxVal)..MaxVal

ExampleEmbeddings == {<<1, 2, 3>>, <<1, 2, 3, 4, 5>>}

Embeddings == UNION {[1..n -> Vals] : n \in 0..MaxTextDim} \cup ExampleEmbeddings

\* run_query: build the vector, then collection.query; an error of
\* build_query_vector leaves run_query before the store is queried
RunQuery ==
    /\ q_pc = "ready"
    /\ \E tv \in Embeddings :
         LET r == build_query_vector(tv, collection_dim) IN
         /\ text_vec' = tv
         /\ IF r.tag = "ok"
              THEN /\ query_vector' = r.vec
                   /\ store_queries' = Append(store_queries, r.vec)
                   /\ q_pc' = "done"
                   /\ UNCHANGED q_error
              ELSE /\ q_error' = r.msg
                   /\ q_pc' = "error"
                   /\ UNCHANGED <<query_vector, store_queries>>
    /\ UNCHANGED collection_dim
    /\ UNCHANGED <<wvars, svars, mvars>>

QueryIdle ==
    /\ collection_dim = 0
    /\ q_pc = "idle"
    /\ text_vec = <<>>
    /\ query_vector = NoVector
    /\ store_queries = <<>>
    /\ q_error = "none"

\* ------------------------------------------------------------ main.main
\* a line of text is a sequence of characters
Whitespace == {" "}

RECURSIVE LStrip(_)
LStrip(l) == IF l # <<>> /\ Head(l) \in Whitespace THEN LStrip(Tail(l)) ELSE l

RECURSIVE RStrip(_)
RStrip(l) ==
    IF l # <<>> /\ l[Len(l)] \in Whitespace THEN RStrip(SubSeq(l, 1, Len(l) - 1)) ELSE l

\* the line is used as typed
Strip_none(l) == l

\* str.strip()
Strip(l) == RStrip(LStrip(l))

\* what the user may type: nothing, blanks only, a text, a text with blanks around
Lines == {<<>>, <<" ">>, <<"a">>, <<" ", "b", " ">>}

Scripts == UNION {[1..n -> Lines] : n \in 0..MaxLines}

\* the command line: rejected by argparse, without --query, or with --query <text>
ArgsQuery ==
    {[kind |-> "invalid", text |-> <<>>], [kind |-> "absent", text |-> <<>>]}
      \cup {[kind |-> "given", text |-> t] : t \in {<<>>, <<" ">>, <<"a">>}}

\* the store: no collection of that name, a collection without items, items
\* without embeddings, or items with embeddings of some length
Collections ==
    {[state |-> st, dim |-> 0] : st \in {"absent", "empty", "no_embeddings"}}
      \cup {[state |-> "ok", dim |-> d] : d \in {1, 3, MaxCollDim}}

\* what model.embed returns in a CLI run
MainEmbeddings == {<<>>, <<1, 2, 3>>}

NoError == [raised |-> FALSE, msg |-> "none", dim |-> 0]

RuntimeError(msg) == [raised |-> TRUE, msg |-> msg, dim |-> 0]

\* load_collection: get_collection raises for a missing collection
load_collection(c) ==
    IF c.state = "absent"
      THEN RuntimeError("Failed to load collection 'products' from ./chroma_db")
      ELSE NoError

\* an empty collection is given the dimension 0
determine_embedding_dim_zero(c) ==
    IF c.state = "no_embeddings"
      THEN RuntimeError("No embeddings returned from sample document.")
      ELSE [raised |-> FALSE, msg |-> "none", dim |-> c.dim]

determine_embedding_dim(c) ==
    IF c.state = "empty"
      THEN RuntimeError("Collection is empty; cannot determine embedding dimension.")
      ELSE IF c.state = "no_embeddings"
        THEN RuntimeError("No embeddings returned from sample document.")
        ELSE [raised |-> FALSE, msg |-> "none", dim |-> c.dim]

\* `if args.query:`
UseQueryFlag(a) == a.kind = "given" /\ a.text # <<>>

\* the handler of lines 176-180: the message goes to stderr, the exit code is 1
ExitWithError(msg) ==
    /\ m_pc' = "exited"
    /\ exit_code' = 1
    /\ stderr' = msg

\* main returned: the script ends
ExitNormally ==
    /\ m_pc' = "exited"
    /\ exit_code' = 0
    /\ UNCHANGED stderr

\* whether run_query raises: build_query_vector's error, or one of collection.query
RunQueryRaises(tv, store_ok) == build_query_vector(tv, collection_dim).tag # "ok" \/ ~store_ok

\* run_query(collection, clip_model, collection_dim, query_text, top_k)
RunQueryIn(query_text, tv, store_ok) ==
    LET r == build_query_vector(tv, collection_dim) IN
    /\ queries_run' = Append(queries_run, query_text)
    /\ embed_requests' = embed_requests + 1
    /\ text_vec' = tv
    /\ IF r.tag = "ok"
         THEN /\ query_vector' = r.vec
              /\ store_queries' = Append(store_queries, r.vec)
              /\ q_error' = IF store_ok THEN q_error ELSE "collection.query failed"
         ELSE /\ q_error' = r.msg
              /\ UNCHANGED <<query_vector, store_queries>>
    /\ UNCHANGED <<q_pc, collection_dim>>

\* lines 143-167: the arguments are parsed, the model and the collection are
\* loaded and the stored dimension is read
MainSetup ==
    /\ m_pc = "start"
    /\ IF args.kind = "invalid"
         THEN /\ m_pc' = "exited"
              /\ exit_code' = 2
              /\ stderr' = "usage"
              /\ UNCHANGED collection_dim
         ELSE IF ~clip_ok
           THEN ExitWithError("Could not initialize CLIP via llm.") /\ UNCHANGED collection_dim
           ELSE IF load_collection(collection).raised
             THEN ExitWithError(load_collection(collection).msg) /\ UNCHANGED collection_dim
             ELSE IF determine_embedding_dim(collection).raised
               THEN /\ ExitWithError(determine_embedding_dim(collection).msg)
                    /\ UNCHANGED collection_dim
               ELSE /\ collection_dim' = determine_embedding_dim(collection).dim
                    /\ m_pc' = "dispatch"
                    /\ UNCHANGED <<exit_code, stderr>>
    /\ UNCHANGED <<q_pc, text_vec, query_vector, store_queries, q_error>>
    /\ UNCHANGED <<args, clip_ok, collection, stdin, lines_read, prompts, interactive,
                   queries_run, embed_requests>>
    /\ UNCHANGED <<wvars, svars>>

\* lines 169-170: one run_query with the text of --query, as given
SingleShot ==
    /\ m_pc = "dispatch"
    /\ UseQueryFlag(args)
    /\ \E tv \in MainEmbeddings, store_ok \in BOOLEAN :
         /\ RunQueryIn(args.text, tv, store_ok)
         /\ IF RunQueryRaises(tv, store_ok) THEN ExitWithError(q_error') ELSE ExitNormally
    /\ UNCHANGED <<args, clip_ok, collection, stdin, lines_read, prompts, interactive>>
    /\ UNCHANGED <<wvars, svars>>

\* lines 171-172, 126-129: interactive_loop is entered and prints its banner
EnterInteractive ==
    /\ m_pc = "dispatch"
    /\ ~UseQueryFlag(args)
    /\ interactive' = TRUE
    /\ m_pc' = "prompt"
    /\ UNCHANGED <<args, clip_ok, collection, stdin, lines_read, prompts, queries_run,
                   embed_requests, exit_code, stderr>>
    /\ UNCHANGED <<wvars, qvars, svars>>

\* lines 130-139: one pass of the while loop: prompt, read, strip, leave or query
InteractiveStep ==
    /\ m_pc = "prompt"
    /\ prompts' = prompts + 1
    /\ IF lines_read = Len(stdin)
         THEN \* EOFError
              /\ ExitNormally
              /\ UNCHANGED <<lines_read, queries_run, embed_requests, qvars>>
         ELSE LET query_text == Strip(stdin[lines_read + 1]) IN
              /\ lines_read' = lines_read + 1
              /\ IF query_text = <<>>
                   THEN /\ ExitNormally
                        /\ UNCHANGED <<queries_run, embed_requests, qvars>>
                   ELSE \E tv \in MainEmbeddings, store_ok \in BOOLEAN :
                          /\ RunQueryIn(query_text, tv, store_ok)
                          /\ IF RunQueryRaises(tv, store_ok)
                               THEN ExitWithError(q_error')
                               ELSE UNCHANGED <<m_pc, exit_code, stderr>>
    /\ UNCHANGED <<args, clip_ok, collection, stdin, interactive>>
    /\ UNCHANGED <<wvars, svars>>

MainIdle ==
    /\ m_pc = "idle"
    /\ args = [kind |-> "absent", text |-> <<>>]
    /\ clip_ok = TRUE
    /\ collection = [state |-> "absent", dim |-> 0]
    /\ stdin = <<>>
    /\ lines_read = 0
    /\ prompts = 0
    /\ interactive = FALSE
    /\ queries_run = <<>>
    /\ embed_requests = 0
    /\ exit_code = -1
    /\ stderr = "none"

\* ------------------------------------------------- scraper.scrape_laam_pk
NoFile == [written |-> FALSE, data |-> <<>>]

ScrapeIdle ==
    /\ s_pc = "idle"
    /\ num_products = 0
    /\ products_to_process = <<>>
    /\ idx = 0
    /\ final_products_data = <<>>
    /\ api_fetches = <<>>
    /\ image_downloads = <<>>
    /\ image_files = {}
    /\ metadata_file = NoFile
    /\ fatal = NoneValue
    /\ api_skipped = {}
    /\ image_skipped = {}

\* the wrapper has returned or raised; its frame is gone once the caller goes on
WrapperDone == w_pc \in {"succeeded", "raised", "returned"}

WrapperReset ==
    /\ w_func' = "none"
    /\ w_pc' = "idle"
    /\ attempt' = 0
    /\ calls' = 0
    /\ e' = NoneValue
    /\ sleeps' = <<>>
    /\ log' = <<>>
    /\ w_result' = NoneValue
    /\ UNCHANGED <<max_retries, initial_backoff>>

\* parse_sitemap: one item per <url>, in document order; the item at position
\* i stands for the handle i.  "other" is a loc without '/products/'.
Sitemaps == UNION {[1..n -> {"product", "other"}] : n \in 0..MaxProducts}

\* what the API may answer with a 200: no usable title, a media list whose
\* first entry has a src, no src, an empty media list (media[0] raises
\* IndexError), an attribute without 'label' (KeyError)
ApiData == {"no_title", "with_image", "no_image", "empty_media", "bad_attributes"}

\* `break` in place of `continue`: the rest of the batch is dropped
Continue_break(i, n) == n

\* `continue`: the for loop goes on with the next of the n items
Continue(i, n) == i + 1

\* the image path is recorded although nothing was written
product_data_always_path(h, url, path) ==
    [unique_item_id |-> h, image_url |-> url,
     local_image_path |-> IF url = "src" THEN "file" ELSE path]

product_data(h, url, path) ==
    [unique_item_id |-> h, image_url |-> url, local_image_path |-> path]

\* lines 112-114: the sitemap is fetched first
ScrapeStart ==
    /\ s_pc = "start"
    /\ WrapperCall("fetch_sitemap_content")
    /\ s_pc' = "sitemap"
    /\ UNCHANGED <<num_products, products_to_process, idx, final_products_data,
                   api_fetches, image_downloads, image_files, metadata_file>>
    /\ UNCHANGED <<fatal, api_skipped, image_skipped>>
    /\ UNCHANGED <<qvars, mvars>>

\* the FATAL branch does not return: the run goes on with an empty batch
SitemapReturn_goes_on ==
    /\ s_pc = "sitemap"
    /\ WrapperDone
    /\ IF w_pc = "raised" /\ IsRequestException(w_result)
         THEN s_pc' = "loop" /\ fatal' = w_result /\ UNCHANGED products_to_process
         ELSE IF w_pc = "succeeded"
           THEN \/ \E product_urls \in Sitemaps :
                     /\ products_to_process' = Take(product_urls, num_products)
                     /\ s_pc' = "loop"
                     /\ UNCHANGED <<fatal, api_skipped, image_skipped>>
                \/ s_pc' = "crashed" /\ UNCHANGED <<products_to_process, fatal>>
           ELSE s_pc' = "crashed" /\ UNCHANGED <<products_to_process, fatal>>
    /\ WrapperReset
    /\ UNCHANGED <<num_products, idx, final_products_data, api_fetches,
                   image_downloads, image_files, metadata_file>>
    /\ UNCHANGED <<api_skipped, image_skipped>>
    /\ UNCHANGED <<qvars, mvars>>

\* lines 115-123: FATAL and return, or parse the sitemap and cut the batch
SitemapReturn ==
    /\ s_pc = "sitemap"
    /\ WrapperDone
    /\ IF w_pc = "raised" /\ IsRequestException(w_result)
         THEN s_pc' = "aborted" /\ fatal' = w_result /\ UNCHANGED products_to_process
         ELSE IF w_pc = "succeeded"
           THEN \/ \E product_urls \in Sitemaps :
                     /\ products_to_process' = Take(product_urls, num_products)
                     /\ s_pc' = "loop"
                     /\ UNCHANGED <<fatal, api_skipped, image_skipped>>
                \/ s_pc' = "crashed" /\ UNCHANGED <<products_to_process, fatal>>
           ELSE s_pc' = "crashed" /\ UNCHANGED <<products_to_process, fatal>>
    /\ WrapperReset
    /\ UNCHANGED <<num_products, idx, final_products_data, api_fetches,
                   image_downloads, image_files, metadata_file>>
    /\ UNCHANGED <<api_skipped, image_skipped>>
    /\ UNCHANGED <<qvars, mvars>>

\* lines 126-128: a url without '/products/' is passed over
LoopSkip ==
    /\ s_pc = "loop"
    /\ idx < Len(products_to_process)
    /\ products_to_process[idx + 1] # "product"
    /\ idx' = Continue(idx, Len(products_to_process))
    /\ UNCHANGED <<s_pc, num_products, products_to_process, final_products_data,
                   api_fetches, image_downloads, image_files, metadata_file>>
    /\ UNCHANGED <<fatal, api_skipped, image_skipped>>
    /\ UNCHANGED <<wvars, qvars, mvars>>

\* lines 130-142: the handle is cut from the url and the API is asked
LoopFetch ==
    /\ s_pc = "loop"
    /\ idx < Len(products_to_process)
    /\ products_to_process[idx + 1] = "product"
    /\ WrapperCall("fetch_product_details_from_api")
    /\ api_fetches' = Append(api_fetches, idx + 1)
    /\ s_pc' = "api"
    /\ UNCHANGED <<num_products, products_to_process, idx, final_products_data,
                   image_downloads, image_files, metadata_file>>
    /\ UNCHANGED <<fatal, api_skipped, image_skipped>>
    /\ UNCHANGED <<qvars, mvars>>

\* lines 143-196: skip on a persistent failure or on unusable data; else build
\* product_data and either download the image or append the product without one
ApiReturn ==
    /\ s_pc = "api"
    /\ WrapperDone
    /\ \/ /\ w_pc = "raised"
          /\ IF IsRequestException(w_result)
               THEN /\ s_pc' = "loop"
                    /\ idx' = Continue(idx, Len(products_to_process))
                    /\ api_skipped' = api_skipped \cup {idx + 1}
               ELSE s_pc' = "crashed" /\ UNCHANGED <<idx, api_skipped>>
          /\ WrapperReset
          /\ UNCHANGED <<final_products_data, image_downloads>>
       \/ /\ w_pc = "succeeded"
          /\ \E api_data \in ApiData :
               CASE api_data = "no_title" ->
                      /\ s_pc' = "loop"
                      /\ idx' = Continue(idx, Len(products_to_process))
                      /\ WrapperReset
                      /\ UNCHANGED <<final_products_data, image_downloads, api_skipped>>
                 [] api_data \in {"empty_media", "bad_attributes"} ->
                      /\ s_pc' = "crashed"
                      /\ WrapperReset
                      /\ UNCHANGED <<idx, final_products_data, image_downloads, api_skipped>>
                 [] api_data = "no_image" ->
                      /\ final_products_data' =
                            Append(final_products_data, product_data(idx + 1, "None", "None"))
                      /\ s_pc' = "loop"
                      /\ idx' = idx + 1
                      /\ WrapperReset
                      /\ UNCHANGED <<image_downloads, api_skipped>>
                 [] api_data = "with_image" ->
                      /\ WrapperCall("download_image_content")
                      /\ image_downloads' = Append(image_downloads, idx + 1)
                      /\ s_pc' = "image"
                      /\ UNCHANGED <<idx, final_products_data, api_skipped>>
       \/ /\ w_pc = "returned"
          /\ s_pc' = "loop"
          /\ idx' = Continue(idx, Len(products_to_process))
          /\ WrapperReset
          /\ UNCHANGED <<final_products_data, image_downloads, api_skipped>>
    /\ UNCHANGED <<num_products, products_to_process, api_fetches, image_files,
                   metadata_file>>
    /\ UNCHANGED <<fatal, image_skipped>>
    /\ UNCHANGED <<qvars, mvars>>

\* lines 196-206: write the image, or note that there is none; the product is
\* appended either way
ImageReturn ==
    /\ s_pc = "image"
    /\ WrapperDone
    /\ IF w_pc = "succeeded"
         THEN /\ image_files' = image_files \cup {idx + 1}
              /\ final_products_data' =
                    Append(final_products_data, product_data(idx + 1, "src", "file"))
              /\ s_pc' = "loop"
              /\ idx' = idx + 1
              /\ UNCHANGED image_skipped
         ELSE IF w_pc = "raised" /\ IsRequestException(w_result)
           THEN /\ final_products_data' =
                      Append(final_products_data, product_data(idx + 1, "src", "None"))
                /\ s_pc' = "loop"
                /\ idx' = idx + 1
                /\ image_skipped' = image_skipped \cup {idx + 1}
                /\ UNCHANGED image_files
           ELSE /\ s_pc' = "crashed"
                /\ UNCHANGED <<idx, final_products_data, image_files, image_skipped>>
    /\ WrapperReset
    /\ UNCHANGED <<num_products, products_to_process, api_fetches, image_downloads,
                   metadata_file>>
    /\ UNCHANGED <<fatal, api_skipped>>
    /\ UNCHANGED <<qvars, mvars>>

\* lines 209-217: after the loop the metadata file is written
SaveMetadata ==
    /\ s_pc = "loop"
    /\ idx >= Len(products_to_process)
    /\ metadata_file' = [written |-> TRUE, data |-> final_products_data]
    /\ s_pc' = "done"
    /\ UNCHANGED <<num_products, products_to_process, idx, final_products_data,
                   api_fetches, image_downloads, image_files>>
    /\ UNCHANGED <<fatal, api_skipped, image_skipped>>
    /\ UNCHANGED <<wvars, qvars, mvars>>

\* ------------------------------------------ a decorated function, called once
Policies == [max_retries : 0..MaxAttempts, initial_backoff : 1..MaxBackoff]

InitRetry ==
    /\ \E p \in Policies :
         /\ max_retries = p.max_retries
         /\ initial_backoff = p.initial_backoff
    /\ WrapperIdle
    /\ QueryIdle
    /\ ScrapeIdle
    /\ MainIdle

Call ==
    /\ w_pc = "idle"
    /\ \E f \in WrappedFuncs : WrapperCall(f)
    /\ UNCHANGED <<qvars, svars, mvars>>

NextRetry == Call \/ Attempt \/ Sleep

SpecRetry == InitRetry /\ [][NextRetry]_vars

\* the call is made, every invocation of func returns or raises, and every
\* time.sleep returns: the wrapper is single-threaded and blocking
SpecRetryFair == SpecRetry /\ WF_vars(NextRetry)

\* ------------------------------------------------------------ one query run
InitQuery ==
    /\ max_retries = MAX_RETRIES
    /\ initial_backoff = INITIAL_BACKOFF
    /\ WrapperIdle
    /\ collection_dim \in 0..MaxCollDim
    /\ q_pc = "ready"
    /\ text_vec = <<>>
    /\ query_vector = NoVector
    /\ store_queries = <<>>
    /\ q_error = "none"
    /\ ScrapeIdle
    /\ MainIdle

NextQuery == RunQuery

SpecQuery == InitQuery /\ [][NextQuery]_vars

\* ---------------------------------------------------------- one scraping run
InitScrape ==
    /\ max_retries = MAX_RETRIES
    /\ initial_backoff = INITIAL_BACKOFF
    /\ WrapperIdle
    /\ QueryIdle
    /\ MainIdle
    /\ s_pc = "start"
    /\ num_products \in 0..MaxProducts
    /\ products_to_process = <<>>
    /\ idx = 0
    /\ final_products_data = <<>>
    /\ api_fetches = <<>>
    /\ image_downloads = <<>>
    /\ image_files = {}
    /\ metadata_file = NoFile
    /\ fatal = NoneValue
    /\ api_skipped = {}
    /\ image_skipped = {}

NextScrape ==
    \/ ScrapeStart
    \/ Attempt
    \/ Sleep
    \/ SitemapReturn
    \/ LoopSkip
    \/ LoopFetch
    \/ ApiReturn
    \/ ImageReturn
    \/ SaveMetadata

SpecScrape == InitScrape /\ [][NextScrape]_vars

\* ------------------------------------------------------------- one CLI run
InitMain ==
    /\ max_retries = MAX_RETRIES
    /\ initial_backoff = INITIAL_BACKOFF
    /\ WrapperIdle
    /\ QueryIdle
    /\ ScrapeIdle
    /\ m_pc = "start"
    /\ args \in ArgsQuery
    /\ clip_ok \in BOOLEAN
    /\ collection \in Collections
    /\ stdin \in Scripts
    /\ lines_read = 0
    /\ prompts = 0
    /\ interactive = FALSE
    /\ queries_run = <<>>
    /\ embed_requests = 0
    /\ exit_code = -1
    /\ stderr = "none"

NextMain == MainSetup \/ SingleShot \/ EnterInteractive \/ InteractiveStep

SpecMain == InitMain /\ [][NextMain]_vars

\* ================================================================= claims
\* The specification's classification of errors (section 4.1): transport
\* errors, HTTP 5xx and 429 are retryable; every other error is not.
SpecRetryable(err) ==
    /\ err.tag = "err"
    /\ \/ err.kind \in {"ConnectionError", "Timeout"}
       \/ err.kind = "HTTPError" /\ (err.status >= 500 \/ err.status = 429)

SpecNonRetryable(err) == err.tag = "err" /\ ~SpecRetryable(err)

\* the latest invocation failed and no later one has been made
LastAttemptFailed == e.tag = "err" /\ e.at = calls - 1 /\ w_pc # "succeeded"

\* C1: with max_retries = n >= 1, an operation that keeps failing with a
\* retryable error is invoked exactly n times: never more than n invocations,
\* the error reaches the caller only once n invocations were made, and after
\* the n-th failure it does reach the caller (no return of None, no retry).
C1_ExactlyNAttempts ==
    max_retries >= 1 =>
      /\ calls <= max_retries
      /\ (w_pc = "raised" /\ SpecRetryable(e)) => calls = max_retries
      /\ (LastAttemptFailed /\ SpecRetryable(e) /\ calls = max_retries)
            => (w_pc = "raised" /\ w_result.tag = "err")
      /\ w_pc # "returned"

C1_Witness ==
    /\ max_retries = MAX_RETRIES
    /\ w_pc = "raised"
    /\ SpecRetryable(e)
    /\ calls = MAX_RETRIES
    /\ Len(sleeps) = MAX_RETRIES - 1

\* C2: a first invocation that fails with a non-retryable error (an HTTP 4xx
\* other than 429, a decode error) makes the wrapper raise at once, after one
\* invocation and no sleep; and a retry follows retryable errors only.
C2_NonRetryablePropagatesAtOnce ==
    /\ (SpecNonRetryable(e) /\ e.at = 0)
          => (w_pc = "raised" /\ w_result = e /\ calls = 1 /\ sleeps = <<>> /\ log = <<>>)
    /\ w_pc = "retrying" => SpecRetryable(e)

\* C3: the i-th delay slept (zero-based attempt index i) is
\* 10 * initial_backoff * 2^i + i tenths of a second, the retry line names the
\* same delay, and with initial_backoff = 2 the delays are 2.0, 4.1, 8.2.
C3_BackoffDelays ==
    /\ \A i \in 1..Len(sleeps) :
         sleeps[i] = 10 * initial_backoff * (2 ^ (i - 1)) + (i - 1)
    /\ \A i \in 1..Len(log) :
         log[i].delay = 10 * initial_backoff * (2 ^ (i - 1)) + (i - 1)
    /\ initial_backoff = 2 =>
         \A i \in 1..Len(sleeps) : i <= 3 => sleeps[i] = <<20, 41, 82>>[i]
    /\ Len(sleeps) = (IF w_pc = "retrying" THEN Len(log) - 1 ELSE Len(log))

C3_Witness ==
    /\ initial_backoff = 2
    /\ sleeps = <<20, 41, 82>>

\* C4: when the last of the max_retries invocations fails, the wrapper raises,
\* and what it raises is that last invocation's error, unchanged; it returns
\* no value.
C4_LastErrorReraised ==
    (max_retries >= 1 /\ e.tag = "err" /\ e.at = max_retries - 1)
      => /\ w_pc = "raised"
         /\ w_result = e
         /\ w_result.at = calls - 1
         /\ calls = max_retries

C4_Witness ==
    /\ max_retries = MAX_RETRIES
    /\ w_pc = "raised"
    /\ e = Err("Timeout", 0, 2)
    /\ w_result = e
    /\ calls = 3

\* C5: for text_dim >= 1 and collection_dim >= 1 the vector returned (and
\* passed to the store) has exactly collection_dim elements.
C5_LengthIsCollectionDim ==
    (q_pc = "done" /\ Len(text_vec) >= 1 /\ collection_dim >= 1)
      => /\ Len(query_vector.num) = collection_dim
         /\ Len(store_queries[Len(store_queries)].num) = collection_dim

C5_Witness ==
    /\ q_pc = "done"
    /\ Len(text_vec) = 3
    /\ collection_dim = 7
    /\ Len(query_vector.num) = 7

\* the returned vector num / sqrt(den2) has Euclidean norm 1
UnitNorm(v) == v.den2 > 0 /\ SumSq(v.num) = v.den2

NonZero(v) == \E i \in 1..Len(v) : v[i] # 0

\* C6 as stated: whenever the source embedding has a nonzero element, the
\* returned vector has norm 1.
C6_UnitNormWheneverSourceNonZero ==
    (q_pc = "done" /\ collection_dim >= 1 /\ NonZero(text_vec))
      => UnitNorm(query_vector)

\* C6 amended: the returned vector has norm 1 whenever the elements kept (the
\* first min(collection_dim, text_dim) of the source) include a nonzero one;
\* otherwise the zero vector is returned as it is.
C6_UnitNormWheneverKeptNonZero ==
    (q_pc = "done" /\ collection_dim >= 1)
      => IF NonZero(Take(text_vec, collection_dim))
           THEN UnitNorm(query_vector)
           ELSE ~NonZero(query_vector.num) /\ query_vector.den2 = 1

C6_Witness ==
    /\ q_pc = "done"
    /\ text_vec = <<1, 1, 0>>
    /\ collection_dim = 2
    /\ query_vector = [num |-> <<1, 1>>, den2 |-> 2]

\* C7: before normalisation, element i (0 <= i < collection_dim) of the
\* vector is source[i mod text_dim]; [1,2,3,4,5] cut to 2 gives [1,2],
\* collection_dim = text_dim gives the source, [1,2,3] tiled to 7 gives
\* [1,2,3,1,2,3,1].
C7_CyclicElements ==
    (q_pc = "done" /\ Len(text_vec) >= 1)
      => /\ Len(query_vector.num) = collection_dim
         /\ \A i \in 0..(collection_dim - 1) :
              query_vector.num[i + 1] = text_vec[(i % Len(text_vec)) + 1]
         /\ (text_vec = <<1, 2, 3, 4, 5>> /\ collection_dim = 2)
               => query_vector.num = <<1, 2>>
         /\ collection_dim = Len(text_vec) => query_vector.num = text_vec
         /\ (text_vec = <<1, 2, 3>> /\ collection_dim = 7)
               => query_vector.num = <<1, 2, 3, 1, 2, 3, 1>>

C7_Witness ==
    /\ q_pc = "done"
    /\ text_vec = <<1, 2, 3>>
    /\ collection_dim = 7
    /\ query_vector.num = <<1, 2, 3, 1, 2, 3, 1>>

\* C8: with text_dim >= 1 and collection_dim = 0 the call fails with an
\* error; no vector is returned and none reaches the store.
C8_ZeroDimensionFails ==
    (q_pc # "ready" /\ Len(text_vec) >= 1 /\ collection_dim = 0)
      => (q_pc = "error" /\ store_queries = <<>>)

\* C9: an empty embedding makes build_query_vector fail with the
\* empty-embedding error for every collection_dim; no vector is returned and
\* run_query issues no store query.
C9_EmptyEmbeddingFails ==
    (q_pc # "ready" /\ Len(text_vec) = 0)
      => /\ q_pc = "error"
         /\ q_error = "Embedding model returned an empty vector."
         /\ query_vector = NoVector
         /\ store_queries = <<>>

C9_Witness ==
    /\ q_pc = "error"
    /\ text_vec = <<>>
    /\ collection_dim = MaxCollDim
    /\ store_queries = <<>>

NoScrapeEffects ==
    /\ api_fetches = <<>>
    /\ image_downloads = <<>>
    /\ image_files = {}
    /\ final_products_data = <<>>
    /\ metadata_file = NoFile

\* C10: a sitemap fetch that failed on all its attempts ends the run at once:
\* the run is aborted from the state in which the fetch raised, and an aborted
\* run has fetched no product, downloaded no image and written no metadata
\* file, and nothing follows it.
C10_SitemapFailureAborts ==
    /\ [](s_pc = "aborted" =>
            /\ NoScrapeEffects
            /\ fatal.tag = "err"
            /\ fatal.at = MAX_RETRIES - 1)
    /\ [][(s_pc = "sitemap" /\ w_pc = "raised") => s_pc' = "aborted"]_vars
    /\ [][s_pc = "aborted" => s_pc' = "aborted"]_vars
    /\ [][(s_pc \in {"start", "sitemap"}) => NoScrapeEffects']_vars

C10_Witness ==
    /\ s_pc = "aborted"
    /\ fatal = Err("HTTPError", 500, 2)
    /\ NoScrapeEffects

Range(q) == {q[i] : i \in 1..Len(q)}

\* the entries of a product list that carry the handle h
EntriesOf(data, h) == {i \in 1..Len(data) : data[i].unique_item_id = h}

ApiFetchFailed == s_pc = "api" /\ w_pc = "raised" /\ IsRequestException(w_result)

ImageDownloadFailed == s_pc = "image" /\ w_pc = "raised" /\ IsRequestException(w_result)

\* C12 as stated: a product whose image download failed on all its attempts
\* does not appear in the output metadata.
C12_ImageFailureSkipsProduct ==
    \A h \in image_skipped :
      /\ EntriesOf(final_products_data, h) = {}
      /\ EntriesOf(metadata_file.data, h) = {}

\* C12 amended: only the image is skipped.  No file is written for the
\* product, the product is appended with local_image_path None, it is in the
\* metadata file of a run that ends, and the loop goes on with the next
\* product.
C12_ImageFailureKeepsProduct ==
    /\ [](ImageDownloadFailed => calls = MAX_RETRIES)
    /\ [][ImageDownloadFailed =>
            /\ s_pc' = "loop"
            /\ idx' = idx + 1
            /\ image_skipped' = image_skipped \cup {idx + 1}
            /\ final_products_data' =
                 Append(final_products_data,
                        [unique_item_id |-> idx + 1, image_url |-> "src",
                         local_image_path |-> "None"])
            /\ image_files' = image_files]_vars
    /\ [](\A h \in image_skipped :
            /\ h \notin image_files
            /\ Cardinality(EntriesOf(final_products_data, h)) = 1
            /\ \A i \in EntriesOf(final_products_data, h) :
                 final_products_data[i].local_image_path = "None"
            /\ s_pc = "done" =>
                 \E i \in EntriesOf(metadata_file.data, h) :
                   metadata_file.data[i].local_image_path = "None")

C12_Witness ==
    /\ s_pc = "done"
    /\ products_to_process = <<"product", "product">>
    /\ image_skipped = {1}
    /\ image_files = {2}
    /\ metadata_file.written
    /\ metadata_file.data[1] = [unique_item_id |-> 1, image_url |-> "src",
                                local_image_path |-> "None"]
    /\ metadata_file.data[2].unique_item_id = 2

\* the CLI run got as far as choosing between the two modes
SetupOk == args.kind # "invalid" /\ clip_ok /\ collection.state = "ok"

\* C13: interactive mode is entered exactly when no --query flag is given;
\* with the flag, whatever its text, one query is run and no prompt is shown.
C13_InteractiveIffNoQueryFlag ==
    /\ interactive => args.kind = "absent"
    /\ (SetupOk /\ args.kind = "absent" /\ m_pc \in {"prompt", "exited"}) => interactive
    /\ (SetupOk /\ args.kind = "given" /\ m_pc = "exited")
          => (Len(queries_run) = 1 /\ queries_run[1] = args.text /\ prompts = 0)

\* what trimming makes of each line a user may type
Trimmed(l) ==
    CASE l = <<" ">> -> <<>>
      [] l = <<" ", "b", " ">> -> <<"b">>
      [] OTHER -> l

\* the trimmed non-blank lines of a script
RECURSIVE TrimmedNonBlank(_)
TrimmedNonBlank(script) ==
    IF script = <<>> THEN <<>>
    ELSE IF Trimmed(Head(script)) = <<>> THEN TrimmedNonBlank(Tail(script))
    ELSE <<Trimmed(Head(script))>> \o TrimmedNonBlank(Tail(script))

\* the lines of a script before its first blank line (all of it if there is none)
RECURSIVE BeforeFirstBlank(_)
BeforeFirstBlank(script) ==
    IF script = <<>> \/ Trimmed(Head(script)) = <<>> THEN <<>>
    ELSE <<Head(script)>> \o BeforeFirstBlank(Tail(script))

\* C14 as stated: once the interactive loop is over, run_query has been
\* called once for every non-blank line before the first blank line or the
\* end of input, with the trimmed text, in input order.
C14_EveryLineBeforeBlankQueried ==
    (interactive /\ m_pc = "exited")
      => queries_run = TrimmedNonBlank(BeforeFirstBlank(stdin))

\* C14 amended: the same of the lines the loop has read.  The loop ends at the
\* first blank line, at the end of input, or when run_query raises (exit code
\* 1, the lines after it are never read); a run that ends without error has
\* queried every non-blank line before the first blank line; nothing is read
\* or queried after the loop.
C14_EveryLineReadQueried ==
    /\ [](interactive =>
            /\ queries_run = TrimmedNonBlank(SubSeq(stdin, 1, lines_read))
            /\ \A i \in 1..(lines_read - 1) : Trimmed(stdin[i]) # <<>>
            /\ m_pc = "prompt" =>
                 (prompts = lines_read /\ Len(queries_run) = lines_read)
            /\ (m_pc = "exited" /\ exit_code = 0) =>
                 /\ \/ /\ lines_read >= 1
                       /\ Trimmed(stdin[lines_read]) = <<>>
                       /\ prompts = lines_read
                    \/ /\ lines_read = Len(stdin)
                       /\ prompts = lines_read + 1
                       /\ Len(queries_run) = lines_read
                 /\ queries_run = TrimmedNonBlank(BeforeFirstBlank(stdin))
            /\ (m_pc = "exited" /\ exit_code # 0) =>
                 /\ exit_code = 1
                 /\ q_error # "none"
                 /\ lines_read >= 1
                 /\ Len(queries_run) = lines_read
                 /\ prompts = lines_read)
    /\ [][m_pc = "exited" => UNCHANGED <<lines_read, prompts, queries_run, store_queries>>]_vars

C14_Witness ==
    /\ interactive
    /\ m_pc = "exited"
    /\ exit_code = 0
    /\ stdin = << <<" ", "b", " ">>, <<"a">>, <<" ">> >>
    /\ lines_read = 3
    /\ queries_run = << <<"b">>, <<"a">> >>

\* C15: with the collection absent or without items the run is fatal:
\* nothing is embedded, the store is not queried, no mode is entered, and the
\* process ends with exit code 1 and the error's message on the error stream;
\* a run in which nothing raises ends with exit code 0.
C15_MissingCollectionIsFatal ==
    /\ (args.kind # "invalid" /\ clip_ok /\ collection.state \in {"absent", "empty"}) =>
         /\ m_pc \in {"start", "exited"}
         /\ embed_requests = 0
         /\ store_queries = <<>>
         /\ queries_run = <<>>
         /\ ~interactive
         /\ prompts = 0
         /\ m_pc = "exited" =>
              /\ exit_code = 1
              /\ stderr = (IF collection.state = "absent"
                             THEN "Failed to load collection 'products' from ./chroma_db"
                             ELSE "Collection is empty; cannot determine embedding dimension.")
    /\ (m_pc = "exited" /\ SetupOk /\ q_error = "none") => (exit_code = 0 /\ stderr = "none")
    /\ (m_pc = "exited" /\ exit_code = 1) => stderr # "none"

C15_Witness ==
    /\ m_pc = "exited"
    /\ args.kind = "absent"
    /\ clip_ok
    /\ collection.state = "empty"
    /\ Len(stdin) = 2
    /\ exit_code = 1
    /\ stderr = "Collection is empty; cannot determine embedding dimension."
    /\ embed_requests = 0

Terminal == {"succeeded", "raised"}

C16_StateInvariant ==
    /\ w_pc \in {"idle", "attempting", "retrying"} \cup Terminal
    /\ calls <= max_retries
    /\ w_pc = "attempting" =>
         (calls = attempt /\ Len(sleeps) = calls /\ Len(log) = calls)
    /\ w_pc = "succeeded" =>
         /\ w_result.tag = "ok"
         /\ w_result.at = calls - 1
         /\ Len(sleeps) = calls - 1
         /\ Len(log) = calls - 1
    /\ w_pc = "raised" =>
         /\ w_result.tag = "err"
         /\ w_result.at = calls - 1
         /\ Len(sleeps) = calls - 1
         /\ Len(log) = calls - 1
    /\ w_pc = "retrying" =>
         /\ e.tag = "err"
         /\ e.at = calls - 1
         /\ calls < max_retries
         /\ Len(sleeps) = calls - 1
         /\ Len(log) = calls
         /\ log[calls].retry = calls
         /\ log[calls].of = max_retries

C16_Transitions ==
    /\ w_pc = "idle" => w_pc' = "attempting"
    /\ w_pc = "attempting" =>
         /\ w_pc' \in {"retrying"} \cup Terminal
         /\ calls' = calls + 1
         /\ sleeps' = sleeps
    /\ w_pc = "retrying" =>
         /\ w_pc' = "attempting"
         /\ calls' = calls
         /\ sleeps' = Append(sleeps, log[Len(log)].delay)
         /\ log' = log
    /\ w_pc \notin Terminal

\* C16: with max_retries >= 1 a call goes Idle -> Attempting -> {Succeeded |
\* Retrying -> Attempting | ExhaustedFailed} and ends in one terminal state
\* after at most max_retries invocations; a success on the k-th invocation
\* returns that invocation's result after k invocations and k - 1 sleeps;
\* a sleep follows its retry line and lies between a failed invocation and
\* the next one, never after a success or the last failure.
C16_RetryStateMachine ==
    /\ [](max_retries >= 1 => C16_StateInvariant)
    /\ [][max_retries >= 1 => C16_Transitions]_vars
    /\ <>(max_retries = 0 \/ w_pc \in Terminal)

C16_Witness ==
    /\ max_retries = 4
    /\ w_pc = "succeeded"
    /\ calls = 3
    /\ w_result = Value("json", 2)
    /\ initial_backoff = 1
    /\ sleeps = <<10, 21>>
    /\ Len(log) = 2

====
